---- MODULE Spec2Model ----
(***************************************************************************)
(* A model of easydi, a lazy dependency-injection registry.                *)
(*                                                                         *)
(* Python values are records tagged by the field t; each tag has its own   *)
(* payload field.  Objects, factories, registry maps and group lists have  *)
(* identity: they live in the sequences heap, facs, maps and lists and are *)
(* referred to by their index.                                             *)
(***************************************************************************)
EXTENDS Integers, Sequences, FiniteSets, TLC

VARIABLES
    maps,     \* ObjectFactoryMap objects: index -> [key -> value]
    lists,    \* list objects stored in a registry (group lists)
    facs,     \* ObjectFactory objects
    heap,     \* instances of the registered / resolved classes
    app,      \* the application that drives the registry
    last,     \* what the most recent call returned or raised
    lock,     \* _THREADING_LOCK: the threads holding it to read, and to write
    th,       \* the threads: the statement each is at, and its local variables
    hist      \* what the threads' calls did so far (history)

vars == <<maps, lists, facs, heap, app, last, lock, th, hist>>

\* What only the threads change.
thvars == <<lock, th, hist>>

(***************************************************************************)
(* Bounds of the model.                                                    *)
(***************************************************************************)
MaxFacs == 2      \* ObjectFactory objects created (register calls)
MaxObjs == 3      \* instances constructed
MaxDepth == 4     \* nesting depth of factory -> descriptor -> factory
MaxList == 3      \* members of a group list
MaxCalls == 1     \* calls each thread makes

(***************************************************************************)
(* Python values.                                                          *)
(***************************************************************************)
None == [t |-> "none"]
Cls(c) == [t |-> "class", c |-> c]
Obj(i) == [t |-> "obj", id |-> i]
PyStr(s) == [t |-> "str", s |-> s]
PyInt(n) == [t |-> "int", n |-> n]
PyBool(b) == [t |-> "bool", b |-> b]
PyList(items) == [t |-> "list", items |-> items]
MapRef(i) == [t |-> "map", m |-> i]
ListRef(i) == [t |-> "listref", l |-> i]
FacRef(i) == [t |-> "factory", f |-> i]
Func(name) == [t |-> "function", fn |-> name]

PyDict(d) == [t |-> "dict", d |-> d]

\* The outcome of a call: a returned value, or a raised exception with its
\* message and the class or path the message names.
Return(v) == [ok |-> TRUE, val |-> v, err |-> "", about |-> ""]
Raise(msg, about) == [ok |-> FALSE, val |-> None, err |-> msg, about |-> about]

\* Exception messages of the package.
ErrUnableToCreate == "Unable to create instance"
ErrNotRegister == "Object is not register in containers"
ErrUnsupported == "Unsupported object type"
ErrConfigNotSet == "Object for config not set"
ErrConfigGet == "Config must implement get"
ErrDependencyNotRegister == "Dependency is not register"
ErrMustBeClass == "Object must be a class"
ErrCanOnlyUpdate == "Can only update form Container instance"
\* Exceptions raised by the interpreter or by the wrapped classes.
ErrTypeError == "TypeError"
ErrAttributeError == "AttributeError"
ErrValueError == "ValueError"
ErrInvalidProvider == "Invalid Provider"
ErrRecursion == "RecursionError"

(***************************************************************************)
(* Keyword arguments are sequences of <<name, value>> pairs, in insertion  *)
(* order, as a Python dict keeps them.                                     *)
(***************************************************************************)
NoKw == <<>>

KwNames(kw) == {kw[i][1] : i \in 1..Len(kw)}

KwGet(kw, name) ==
    LET i == CHOOSE j \in 1..Len(kw) : kw[j][1] = name IN kw[i][2]

\* dict.update: an existing name keeps its position and takes the new value.
RECURSIVE DictUpdate(_, _)
DictUpdate(kw, more) ==
    IF more = <<>> THEN kw
    ELSE LET p == Head(more)
             set == IF p[1] \in KwNames(kw)
                    THEN [i \in 1..Len(kw) |->
                            IF kw[i][1] = p[1] THEN p ELSE kw[i]]
                    ELSE Append(kw, p)
         IN DictUpdate(set, Tail(more))

(***************************************************************************)
(* The classes an application registers: those of the test module, which   *)
(* is imported as test.test_container, a class of the same name in a       *)
(* top-level module test_container, and a class named test_container that  *)
(* the package test defines.                                               *)
(***************************************************************************)
TestModule == <<"test", "test_container">>
TopModule == <<"test_container">>

PackageModule == <<"test">>

ClassNames == {"Config", "ProviderA", "ProviderB", "ServiceA", "ServiceC",
               "TopProviderB", "test_container"}

ClassModule(c) ==
    CASE c = "TopProviderB" -> TopModule
      [] c = "test_container" -> PackageModule
      [] OTHER -> TestModule

ClassQualname(c) == IF c = "TopProviderB" THEN "ProviderB" ELSE c

\* The parameters of __init__, after self.
ClassParams(c) ==
    CASE c \in {"Config", "test_container"} -> <<>>
      [] c \in {"ProviderA", "ProviderB", "TopProviderB"} -> <<"value">>
      [] c = "ServiceA" -> <<"provider">>
      [] c = "ServiceC" -> <<"providers">>

\* _retrieve_class_path: the module's segments, then the qualified name.
RetrieveClassPath(v) ==
    IF v.t # "class" THEN Raise(ErrMustBeClass, "")
    ELSE Return(Append(ClassModule(v.c), ClassQualname(v.c)))

(***************************************************************************)
(* The classes of the test module.                                         *)
(***************************************************************************)
\* str(value), for the values the model formats.
ToStr(v) ==
    CASE v.t = "str" -> v.s
      [] v.t = "int" -> (IF v.n \in 0..9
                         THEN <<"0", "1", "2", "3", "4", "5", "6", "7", "8", "9">>[v.n + 1]
                         ELSE "<int>")
      [] v.t = "none" -> "None"
      [] v.t = "bool" -> (IF v.b THEN "True" ELSE "False")
      [] OTHER -> "<object>"

\* int(value): the decimal strings the model uses parse, anything else raises.
ToInt(v) ==
    CASE v.t = "int" -> Return(v)
      [] v.t = "str" -> (IF \E n \in 0..9 : ToStr(PyInt(n)) = v.s
                         THEN Return(PyInt(CHOOSE n \in 0..9 : ToStr(PyInt(n)) = v.s))
                         ELSE Raise(ErrValueError, ""))
      [] OTHER -> Raise(ErrTypeError, "")

\* Config.__init__: the backing store, section -> key -> value.
InitialConfig == PyDict([section1 |-> [key1 |-> PyStr("1"), key2 |-> PyInt(2)]])

\* Binding a call's arguments to the parameters of __init__.
BindOk(params, args, kw) ==
    /\ Len(args) <= Len(params)
    /\ \A n \in KwNames(kw) : \E i \in (Len(args) + 1)..Len(params) : params[i] = n
    /\ \A i \in (Len(args) + 1)..Len(params) : params[i] \in KwNames(kw)

Bound(params, args, kw, i) ==
    IF i <= Len(args) THEN args[i] ELSE KwGet(kw, params[i])

IsInstance(hp, v, classes) ==
    /\ v.t = "obj"
    /\ v.id \in 1..Len(hp)
    /\ hp[v.id].cls \in classes

\* Calling class c: the object __init__ leaves behind, or what it raises.
Ctor(hp, c, args, kw) ==
    LET params == ClassParams(c) IN
    IF ~BindOk(params, args, kw) THEN Raise(ErrTypeError, c)
    ELSE CASE c = "Config" ->
                Return([cls |-> c, attr |-> InitialConfig])
           [] c = "ProviderA" ->
                Return([cls |-> c,
                        attr |-> PyStr("A." \o ToStr(Bound(params, args, kw, 1)))])
           [] c \in {"ProviderB", "TopProviderB"} ->
                Return([cls |-> c,
                        attr |-> PyStr("B." \o ToStr(Bound(params, args, kw, 1)))])
           [] c = "ServiceA" ->
                IF IsInstance(hp, Bound(params, args, kw, 1), {"ProviderA", "ProviderB"})
                THEN Return([cls |-> c, attr |-> Bound(params, args, kw, 1)])
                ELSE Raise(ErrInvalidProvider, c)
           [] c = "ServiceC" ->
                Return([cls |-> c, attr |-> Bound(params, args, kw, 1)])
           [] c = "test_container" ->
                Return([cls |-> c, attr |-> None])

\* value_format(value) of Config.get.
ApplyFormat(fmt, v) ==
    CASE fmt = "None" -> Return(v)
      [] fmt = "str" -> Return(PyStr(ToStr(v)))
      [] fmt = "int" -> ToInt(v)

\* Config.get(name, placeholder, value_format); name is the dotted name's
\* sequence of segments, and the unpacking of name.split(".") needs two.
ConfigGet(self, name, placeholder, value_format) ==
    IF Len(name) # 2 THEN Raise(ErrValueError, "")
    ELSE LET store == self.attr.d
             value == IF /\ name[1] \in DOMAIN store
                         /\ name[2] \in DOMAIN store[name[1]]
                      THEN store[name[1]][name[2]]
                      ELSE placeholder
         IN ApplyFormat(value_format, value)

\* Config.set(section, key, value).
ConfigSet(self, section, key, value) ==
    LET store == self.attr.d
        had == IF section \in DOMAIN store THEN store[section] ELSE <<>>
        sec == [k \in (DOMAIN had) \cup {key} |-> IF k = key THEN value ELSE had[k]]
    IN [self EXCEPT !.attr =
            PyDict([s \in (DOMAIN store) \cup {section} |->
                        IF s = section THEN sec ELSE store[s]])]

(***************************************************************************)
(* ObjectFactoryMap.  A map is a sequence of <<key, value>> pairs.         *)
(***************************************************************************)
\* key in map
MapHas(m, key) == key \in KwNames(m)

\* ObjectFactoryMap.__getitem__: dict lookup, KeyError when the key is missing.
MapGetItem(m, key) ==
    IF MapHas(m, key) THEN Return(KwGet(m, key)) ELSE Raise("KeyError", key)

\* ObjectFactoryMap.__getattr__ (and dict.get): None when the key is missing.
MapGetAttr(m, attr) ==
    IF MapHas(m, attr) THEN KwGet(m, attr) ELSE None

\* ObjectFactoryMap.__setitem__
MapSetItem(m, key, value) == DictUpdate(m, <<(<<key, value>>)>>)

\* The loop shared by Dependency.build, DependencyPath.build and
\* DependencyCallback.build: each segment is looked up in the map the previous
\* segment gave, and in the root map whenever that was not a map.
RECURSIVE WalkPath(_, _, _, _)
WalkPath(mp, containers, class_path, obj) ==
    IF class_path = <<>> THEN obj
    ELSE LET from == IF obj.t = "map" THEN obj.m ELSE containers
         IN WalkPath(mp, containers, Tail(class_path),
                     MapGetAttr(mp[from], Head(class_path)))

(***************************************************************************)
(* Dependency descriptors.                                                 *)
(***************************************************************************)
Dependency(class, single_instance, args, kwargs) ==
    [t |-> "Dependency", class |-> class, single_instance |-> single_instance,
     args |-> args, kwargs |-> kwargs]

DependencyPath(path, single_instance, args, kwargs) ==
    [t |-> "DependencyPath", path |-> path, single_instance |-> single_instance,
     args |-> args, kwargs |-> kwargs]

DependencyConfig(config_path, placeholder, value_format) ==
    [t |-> "DependencyConfig", config_path |-> config_path,
     placeholder |-> placeholder, value_format |-> value_format]

DependencyCallback(callback, single_instance, args, kwargs) ==
    [t |-> "DependencyCallback", callback |-> callback,
     single_instance |-> single_instance, args |-> args, kwargs |-> kwargs]

DependencyGroup(group_name, single_instance, args, kwargs) ==
    [t |-> "DependencyGroup", group_name |-> group_name,
     single_instance |-> single_instance, args |-> args, kwargs |-> kwargs]

(***************************************************************************)
(* ObjectFactory and the resolution of descriptors.  A resolution changes  *)
(* the heap and the factories' caches as it goes, so every operator takes  *)
(* the state st = [heap, facs, ctors, builds] and returns the state it     *)
(* leaves with the outcome res.  ctors counts the constructor calls and    *)
(* builds the descriptor resolutions made since the call began.  The       *)
(* registry maps and lists (mp, ls) are only read.                         *)
(***************************************************************************)
ObjectFactory(class_object, containers, args, kwargs) ==
    [class_object |-> class_object, containers |-> containers,
     dependency_args |-> args, dependency_kwargs |-> kwargs, instance |-> None]

Out(st, res) == [st |-> st, res |-> res]

\* class_object(*args, **kwargs): a new object on the heap, or the exception.
Construct(st, c, args, kw) ==
    LET r == Ctor(st.heap, c, args, kw)
        counted == [st EXCEPT !.ctors = @ + 1]
    IN IF r.ok
       THEN Out([counted EXCEPT !.heap = Append(@, r.val)], Return(Obj(Len(st.heap) + 1)))
       ELSE Out(counted, r)

\* "except: raise Exception(msg)": a raised outcome is replaced, a returned
\* one is kept.
Rewrap(r, msg, about) ==
    IF r.res.ok THEN r ELSE Out(r.st, Raise(msg, about))

RECURSIVE FactoryCreateInstance(_, _, _, _, _, _, _)
RECURSIVE FactoryInstance(_, _, _, _, _, _, _)
RECURSIVE FactoryBuild(_, _, _, _, _, _, _)
RECURSIVE DescriptorBuild(_, _, _, _, _, _)
RECURSIVE BuildAll(_, _, _, _, _, _)
RECURSIVE BuildRest(_, _, _, _, _, _)
RECURSIVE CreateWith(_, _, _, _, _)
RECURSIVE GroupMembers(_, _, _, _, _, _, _)
RECURSIVE GroupNext(_, _, _, _, _, _, _)
RECURSIVE Dispatch(_, _, _, _, _, _)
RECURSIVE ConfigInstance(_, _, _, _, _)
RECURSIVE CallFunction(_, _, _, _, _, _, _, _)
RECURSIVE DependencyBuild(_, _, _, _, _, _)
RECURSIVE DependencyPathBuild(_, _, _, _, _, _)
RECURSIVE DependencyConfigBuild(_, _, _, _, _, _)
RECURSIVE DependencyCallbackBuild(_, _, _, _, _, _)
RECURSIVE CallbackResult(_, _, _, _, _, _)
RECURSIVE DependencyGroupBuild(_, _, _, _, _, _)

\* The two comprehensions of __create_instance: every descriptor is built in
\* turn, the positional ones and then the named ones; the first that raises
\* ends the call.  descs is the sequence of descriptors that are left.
BuildAll(mp, ls, st, descs, containers, fuel) ==
    IF descs = <<>> THEN Out(st, Return(<<>>))
    ELSE BuildRest(mp, ls, DescriptorBuild(mp, ls, st, Head(descs), containers, fuel),
                   Tail(descs), containers, fuel)

Prepend(val, rest) ==
    IF rest.res.ok THEN Out(rest.st, Return(<<val>> \o rest.res.val)) ELSE rest

BuildRest(mp, ls, one, descs, containers, fuel) ==
    IF one.res.ok
    THEN Prepend(one.res.val, BuildAll(mp, ls, one.st, descs, containers, fuel))
    ELSE one

\* The values of the named descriptors, under their names.
Named(kwargs, vals) == [i \in 1..Len(kwargs) |-> <<kwargs[i][1], vals[i]>>]

Values(kwargs) == [i \in 1..Len(kwargs) |-> kwargs[i][2]]

\* Mutant: the "try" of __create_instance spans the descriptors too.
CreateWithAllWrapped(self, built, args, kwargs, fuel) ==
    Rewrap(IF ~built.res.ok THEN built
           ELSE Construct(built.st, self.class_object.c,
                          SubSeq(built.res.val, 1, Len(self.dependency_args)) \o args,
                          DictUpdate(Named(self.dependency_kwargs,
                                           SubSeq(built.res.val,
                                                  Len(self.dependency_args) + 1,
                                                  Len(built.res.val))),
                                     kwargs)),
           ErrUnableToCreate, self.class_object.c)

\* The rest of __create_instance, once the descriptors are built: the call of
\* the class inside "try", any exception replaced by "Unable to create".
CreateWith(self, built, args, kwargs, fuel) ==
    IF ~built.res.ok THEN built
    ELSE LET n == Len(self.dependency_args) IN
         Rewrap(Construct(built.st, self.class_object.c,
                          SubSeq(built.res.val, 1, n) \o args,
                          DictUpdate(Named(self.dependency_kwargs,
                                           SubSeq(built.res.val, n + 1,
                                                  Len(built.res.val))),
                                     kwargs)),
                ErrUnableToCreate, self.class_object.c)

\* ObjectFactory.__create_instance
FactoryCreateInstance(mp, ls, st, f, args, kwargs, fuel) ==
    IF fuel = 0 THEN Out(st, Raise(ErrRecursion, ""))
    ELSE CreateWith(st.facs[f],
                    BuildAll(mp, ls, st,
                             st.facs[f].dependency_args
                                \o Values(st.facs[f].dependency_kwargs),
                             st.facs[f].containers, fuel),
                    args, kwargs, fuel)

\* Mutant: the cache is written whether or not __create_instance returned.
CacheAnyOutcome(f, made) ==
    Out([made.st EXCEPT !.facs[f].instance =
            IF made.res.ok THEN made.res.val ELSE PyBool(FALSE)],
        made.res)

\* self.__instance = instance, when __create_instance returned
Cache(f, made) ==
    IF made.res.ok
    THEN Out([made.st EXCEPT !.facs[f].instance = made.res.val], made.res)
    ELSE made

\* Mutant: instance() creates and stores a new object on every call.
FactoryInstanceUncached(mp, ls, st, f, args, kwargs, fuel) ==
    Cache(f, FactoryCreateInstance(mp, ls, st, f, args, kwargs, fuel))

EagerResult(st, f, made) ==
    IF st.facs[f].instance = None \/ ~made.res.ok THEN Cache(f, made)
    ELSE Out(made.st, Return(st.facs[f].instance))

\* Mutant: instance() creates the object before it looks at the cache.
FactoryInstanceEager(mp, ls, st, f, args, kwargs, fuel) ==
    EagerResult(st, f, FactoryCreateInstance(mp, ls, st, f, args, kwargs, fuel))

\* ObjectFactory.instance
FactoryInstance(mp, ls, st, f, args, kwargs, fuel) ==
    IF st.facs[f].instance = None
    THEN Cache(f, FactoryCreateInstance(mp, ls, st, f, args, kwargs, fuel))
    ELSE Out(st, Return(st.facs[f].instance))

\* kwargs without the entry of one name
KwWithout(kw, name) == SelectSeq(kw, LAMBDA pair : pair[1] # name)

\* Mutant: build() goes through the cache, as instance() does.
FactoryBuildCached(mp, ls, st, f, args, kwargs, fuel) ==
    FactoryInstance(mp, ls, st, f, args, kwargs, fuel)

\* ObjectFactory.build
FactoryBuild(mp, ls, st, f, args, kwargs, fuel) ==
    FactoryCreateInstance(mp, ls, st, f, args, kwargs, fuel)

\* obj.build(...) or obj.instance(...) on what a path walk found, as the
\* class-resolving descriptors do after their "obj is None" test.  Only an
\* ObjectFactory has the two methods: on a map, getattr gives None, and the
\* call of None raises.
\* "if _build is True" of __call__
CallDispatch(mp, ls, st, f, build, args, kwargs, fuel) ==
    IF build = PyBool(TRUE)
    THEN FactoryBuild(mp, ls, st, f, args, kwargs, fuel)
    ELSE FactoryInstance(mp, ls, st, f, args, kwargs, fuel)

\* ObjectFactory.__call__(self, _build=False, *args, **kwargs): the first
\* positional argument of the call, when there is one, is bound to _build.
FactoryCall(mp, ls, st, f, args, kwargs, fuel) ==
    IF args # <<>>
    THEN IF "_build" \in KwNames(kwargs)
         THEN Out(st, Raise(ErrTypeError, ""))
         ELSE CallDispatch(mp, ls, st, f, Head(args), Tail(args), kwargs, fuel)
    ELSE IF "_build" \in KwNames(kwargs)
    THEN CallDispatch(mp, ls, st, f, KwGet(kwargs, "_build"), <<>>,
                      KwWithout(kwargs, "_build"), fuel)
    ELSE CallDispatch(mp, ls, st, f, PyBool(FALSE), <<>>, kwargs, fuel)

Dispatch(mp, ls, st, obj, d, fuel) ==
    IF obj.t # "factory" THEN Out(st, Raise(ErrTypeError, ""))
    ELSE IF d.single_instance = FALSE
    THEN FactoryBuild(mp, ls, st, obj.f, d.args, d.kwargs, fuel - 1)
    ELSE FactoryInstance(mp, ls, st, obj.f, d.args, d.kwargs, fuel - 1)

\* What a class-resolving descriptor does with the object its walk found:
\* the class itself is called when nothing was found.
FoundOrFresh(mp, ls, st, obj, class, d, fuel) ==
    IF obj = None THEN Construct(st, class.c, d.args, d.kwargs)
    ELSE Dispatch(mp, ls, st, obj, d, fuel)

\* Dependency.build
DependencyBuild(mp, ls, st, d, containers, fuel) ==
    IF d.class.t = "class"
    THEN Rewrap(FoundOrFresh(mp, ls, st,
                             WalkPath(mp, containers,
                                      RetrieveClassPath(d.class).val, None),
                             d.class, d, fuel),
                ErrNotRegister, d.class.c)
    ELSE IF d.class.t \in {"list", "dict", "tuple", "int", "bool", "float"}
    THEN Out(st, Return(d.class))
    ELSE Out(st, Raise(ErrUnsupported, ""))

\* The same, for DependencyPath.build: its branch for an absent factory reads
\* self.__class, which a DependencyPath never sets, and raises AttributeError.
FoundOrRaise(mp, ls, st, obj, d, fuel) ==
    IF obj = None THEN Out(st, Raise(ErrAttributeError, ""))
    ELSE Dispatch(mp, ls, st, obj, d, fuel)

\* DependencyPath.build.  The path is the dotted string's sequence of segments.
DependencyPathBuild(mp, ls, st, d, containers, fuel) ==
    Rewrap(FoundOrRaise(mp, ls, st, WalkPath(mp, containers, d.path, None), d, fuel),
           ErrNotRegister, d.path[Len(d.path)])


\* Mutant: the config object is built anew for every Config descriptor.
ConfigInstanceBuilt(mp, ls, st, containers, fuel) ==
    LET entry == MapGetItem(mp[containers], "_config") IN
    IF entry.ok /\ entry.val.t = "factory"
    THEN FactoryBuild(mp, ls, st, entry.val.f, <<>>, NoKw, fuel - 1)
    ELSE Out(st, Raise(ErrAttributeError, ""))

\* containers["_config"].instance()
ConfigInstance(mp, ls, st, containers, fuel) ==
    LET entry == MapGetItem(mp[containers], "_config") IN
    IF entry.ok /\ entry.val.t = "factory"
    THEN FactoryInstance(mp, ls, st, entry.val.f, <<>>, NoKw, fuel - 1)
    ELSE Out(st, Raise(ErrAttributeError, ""))

\* The rest of DependencyConfig.build, once the config instance is asked for.
ConfigValue(got, d) ==
    IF ~got.res.ok THEN Out(got.st, Raise(ErrConfigNotSet, ""))
    ELSE IF ~IsInstance(got.st.heap, got.res.val, {"Config"})
    THEN Out(got.st, Raise(ErrConfigGet, ""))
    ELSE Out(got.st, ConfigGet(got.st.heap[got.res.val.id], d.config_path,
                               d.placeholder, d.value_format))

\* DependencyConfig.build
DependencyConfigBuild(mp, ls, st, d, containers, fuel) ==
    ConfigValue(ConfigInstance(mp, ls, st, containers, fuel), d)

\* The body of a callback function, after its first statement
\* config = container["_config"].instance().
CallbackBody(got, fn) ==
    IF ~got.res.ok THEN got
    ELSE IF ~IsInstance(got.st.heap, got.res.val, {"Config"})
    THEN Out(got.st, Raise(ErrAttributeError, ""))
    ELSE LET config == got.st.heap[got.res.val.id]
             key1 == ConfigGet(config, <<"section1", "key1">>, None, "None")
             key2 == ConfigGet(config, <<"section1", "key2">>, None, "None")
             key3 == ConfigGet(config, <<"section1", "key3">>, PyStr("test"), "None")
         IN IF fn = "callback_class"
            THEN Out(got.st, Return(IF key1.val = PyStr("1")
                                    THEN Cls("ProviderA") ELSE Cls("ProviderB")))
            ELSE IF key1.val = PyStr("1")
            THEN Construct(got.st, "ProviderA", <<key2.val>>, NoKw)
            ELSE Construct(got.st, "ProviderB", <<key3.val>>, NoKw)

\* The callback functions an application passes to DependencyCallback:
\*   "callback" is TestDependencyCallback.callback, which returns an instance
\*   it constructs itself;
\*   "callback_class" makes the same choice and returns the class.
\* Both take the registry map and nothing else.
CallFunction(mp, ls, st, fn, containers, args, kwargs, fuel) ==
    IF args # <<>> \/ kwargs # NoKw THEN Out(st, Raise(ErrTypeError, ""))
    ELSE CallbackBody(ConfigInstance(mp, ls, st, containers, fuel), fn)

\* The rest of DependencyCallback.build, once the callback was called.
CallbackResult(mp, ls, result, d, containers, fuel) ==
    IF ~result.res.ok THEN result
    ELSE IF result.res.val.t # "class" THEN result
    ELSE FoundOrFresh(mp, ls, result.st,
                      WalkPath(mp, containers,
                               RetrieveClassPath(result.res.val).val, None),
                      result.res.val, d, fuel)

\* DependencyCallback.build
DependencyCallbackBuild(mp, ls, st, d, containers, fuel) ==
    Rewrap(CallbackResult(mp, ls,
                          CallFunction(mp, ls, st, d.callback, containers,
                                       d.args, d.kwargs, fuel),
                          d, containers, fuel),
           ErrUnsupported, "")

\* The loop of DependencyGroup.build: a member that raises is skipped.
GroupMembers(mp, ls, st, members, d, objs, fuel) ==
    IF members = <<>> THEN Out(st, Return(PyList(objs)))
    ELSE GroupNext(mp, ls, Dispatch(mp, ls, st, FacRef(Head(members)), d, fuel),
                   Tail(members), d, objs, fuel)

\* Mutant: a member that raises ends the loop with its exception.
GroupNextAbort(mp, ls, one, members, d, objs, fuel) ==
    IF one.res.ok
    THEN GroupMembers(mp, ls, one.st, members, d, Append(objs, one.res.val), fuel)
    ELSE one

GroupNext(mp, ls, one, members, d, objs, fuel) ==
    GroupMembers(mp, ls, one.st, members, d,
                 IF one.res.ok THEN Append(objs, one.res.val) ELSE objs, fuel)

\* DependencyGroup.build
DependencyGroupBuild(mp, ls, st, d, containers, fuel) ==
    LET group == MapGetItem(mp[containers], "_group").val IN
    IF ~MapHas(mp[group.m], d.group_name) THEN Out(st, Return(PyList(<<>>)))
    ELSE GroupMembers(mp, ls, st, ls[KwGet(mp[group.m], d.group_name).l], d, <<>>, fuel)

\* arg.build(containers), by the class of arg.  A value that is no descriptor
\* has no build method.
DescriptorBuild(mp, ls, st, d, containers, fuel) ==
    CASE d.t = "Dependency" ->
            DependencyBuild(mp, ls, [st EXCEPT !.builds = @ + 1], d, containers, fuel)
      [] d.t = "DependencyPath" ->
            DependencyPathBuild(mp, ls, [st EXCEPT !.builds = @ + 1], d, containers, fuel)
      [] d.t = "DependencyConfig" ->
            DependencyConfigBuild(mp, ls, [st EXCEPT !.builds = @ + 1], d, containers, fuel)
      [] d.t = "DependencyCallback" ->
            DependencyCallbackBuild(mp, ls, [st EXCEPT !.builds = @ + 1], d, containers, fuel)
      [] d.t = "DependencyGroup" ->
            DependencyGroupBuild(mp, ls, [st EXCEPT !.builds = @ + 1], d, containers, fuel)
      [] OTHER -> Out(st, Raise(ErrAttributeError, ""))

(***************************************************************************)
(* Container.  Two facades, A and B; Container.__init__ builds the group   *)
(* index, the alias index and then the root map that holds them.           *)
(***************************************************************************)
Facades == {"A", "B"}

Root(c) == IF c = "A" THEN 3 ELSE 6

DescriptorClasses == {"Dependency", "DependencyPath", "DependencyGroup",
                      "DependencyConfig", "DependencyCallback"}

\* The classes register's second isinstance test names (for the named arguments).
KwargDescriptorClasses == {"Dependency", "DependencyPath", "DependencyGroup",
                           "DependencyConfig"}

\* Container.__init__
NewContainer(group, alias) ==
    <<(<<"_group", MapRef(group)>>), (<<"_alias", MapRef(alias)>>), (<<"_config", None>>)>>

\* Mutant: register wraps a plain argument in a descriptor that builds.
WrapArgsBuild(args) ==
    [i \in 1..Len(args) |->
        IF args[i].t \in DescriptorClasses THEN args[i]
        ELSE Dependency(args[i], FALSE, <<>>, NoKw)]

\* register's rewrite of the positional arguments
WrapArgs(args) ==
    [i \in 1..Len(args) |->
        IF args[i].t \in DescriptorClasses THEN args[i]
        ELSE Dependency(args[i], TRUE, <<>>, NoKw)]

\* register's rewrite of the named arguments
WrapKwargs(kwargs) ==
    [i \in 1..Len(kwargs) |->
        <<kwargs[i][1],
          IF kwargs[i][2].t \in KwargDescriptorClasses THEN kwargs[i][2]
          ELSE Dependency(kwargs[i][2], TRUE, <<>>, NoKw)>>]

\* Container.__group_factory; reg = [maps, lists]
GroupFactory(reg, root, obj, group_name) ==
    IF group_name = None THEN reg
    ELSE LET g == KwGet(reg.maps[root], "_group").m
             fresh == ~MapHas(reg.maps[g], group_name.s)
             withList == IF fresh
                         THEN [maps |-> [reg.maps EXCEPT ![g] =
                                            MapSetItem(@, group_name.s,
                                                       ListRef(Len(reg.lists) + 1))],
                               lists |-> Append(reg.lists, <<>>)]
                         ELSE reg
             l == KwGet(withList.maps[g], group_name.s).l
         IN [withList EXCEPT !.lists[l] = Append(@, obj)]

\* Container.__add_alias
AddAlias(reg, root, obj, alias_name) ==
    IF alias_name = None THEN reg
    ELSE LET a == KwGet(reg.maps[root], "_alias").m IN
         [reg EXCEPT !.maps[a] = MapSetItem(@, alias_name.s, FacRef(obj))]

\* Container.__set_config
SetConfigFactory(reg, root, obj, as_config) ==
    IF as_config THEN [reg EXCEPT !.maps[root] = MapSetItem(@, "_config", FacRef(obj))]
    ELSE reg

\* The loop that ends register: the factory goes to the leaf, and a map is
\* created for every namespace segment that is missing.  Storing into, or
\* testing membership in, something that is not a map raises TypeError.
RECURSIVE StorePath(_, _, _, _)
StorePath(mp, current_level, paths, obj) ==
    IF Len(paths) = 1
    THEN [ok |-> TRUE, maps |-> [mp EXCEPT ![current_level] =
                                    MapSetItem(@, paths[1], FacRef(obj))]]
    ELSE LET made == IF MapHas(mp[current_level], paths[1]) THEN mp
                     ELSE Append([mp EXCEPT ![current_level] =
                                     MapSetItem(@, paths[1], MapRef(Len(mp) + 1))],
                                 <<>>)
             next == KwGet(made[current_level], paths[1])
         IN IF next.t # "map" THEN [ok |-> FALSE, maps |-> made]
            ELSE StorePath(made, next.m, Tail(paths), obj)

\* Container.register; reg = [maps, lists, facs].  The request req gives
\* class_object, args, kwargs and the three options.
ContainerRegister(reg, root, req) ==
    LET obj == Len(reg.facs) + 1
        made == ObjectFactory(req.class_object, root,
                              WrapArgs(req.args), WrapKwargs(req.kwargs))
        grouped == GroupFactory([maps |-> reg.maps, lists |-> reg.lists],
                                root, obj, req.group)
        aliased == AddAlias(grouped, root, obj, req.alias)
        configured == SetConfigFactory(aliased, root, obj, req.config)
        paths == RetrieveClassPath(req.class_object)
        stored == StorePath(configured.maps, root, paths.val, obj)
        sofar == [maps |-> configured.maps, lists |-> configured.lists,
                  facs |-> Append(reg.facs, made)]
    IN IF ~paths.ok THEN [reg |-> sofar, res |-> paths]
       ELSE [reg |-> [sofar EXCEPT !.maps = stored.maps],
             res |-> IF stored.ok THEN Return(None) ELSE Raise(ErrTypeError, "")]

\* Container._update_containers(dict1, dict2), over the items of dict2 that
\* are left; reg = [maps, lists].  dict1 and dict2 are map indexes.
RECURSIVE UpdateContainers(_, _, _)
UpdateContainers(reg, dict1, items) ==
    IF items = <<>> THEN [ok |-> TRUE, reg |-> reg]
    ELSE LET key == Head(items)[1]
             val == Head(items)[2]
             had == MapGetAttr(reg.maps[dict1], key)
             one ==
                IF ~MapHas(reg.maps[dict1], key)
                THEN [ok |-> TRUE,
                      reg |-> [reg EXCEPT !.maps[dict1] = MapSetItem(@, key, val)]]
                ELSE IF had.t = "map"
                THEN IF val.t = "map"
                     THEN UpdateContainers(reg, had.m, reg.maps[val.m])
                     ELSE [ok |-> FALSE, reg |-> reg]
                ELSE IF had.t = "factory"
                THEN [ok |-> TRUE,
                      reg |-> IF val # None
                              THEN [reg EXCEPT !.maps[dict1] = MapSetItem(@, key, val)]
                              ELSE reg]
                ELSE IF had.t = "listref" /\ val.t = "listref"
                THEN [ok |-> TRUE,
                      reg |-> [reg EXCEPT !.lists[had.l] = @ \o reg.lists[val.l]]]
                ELSE [ok |-> FALSE, reg |-> reg]
         IN IF ~one.ok THEN one
            ELSE UpdateContainers(one.reg, dict1, Tail(items))

\* Container.list_object_factories over the items of a map that are left.
\* An empty map is falsy, so "objects or self.__container" starts again from
\* the root and the recursion never ends.
RECURSIVE ListObjectFactories(_, _, _)
ListObjectFactories(mp, root, items) ==
    IF items = <<>> THEN [ok |-> TRUE, objs |-> <<>>]
    ELSE LET k == Head(items)[1]
             v == Head(items)[2]
             rest == ListObjectFactories(mp, root, Tail(items))
             sub == ListObjectFactories(mp, root, mp[v.m])
         IN IF v.t = "map"
            THEN IF k \in {"_group", "_alias", "_config"} THEN rest
                 ELSE IF mp[v.m] = <<>> THEN [ok |-> FALSE, objs |-> <<>>]
                 ELSE [ok |-> sub.ok /\ rest.ok, objs |-> sub.objs \o rest.objs]
            ELSE [ok |-> rest.ok, objs |-> <<v>> \o rest.objs]

\* Container.update with another Container; reg = [maps, lists, facs].
ContainerUpdate(reg, self, container) ==
    LET merged == UpdateContainers([maps |-> reg.maps, lists |-> reg.lists],
                                   self, reg.maps[container])
        after == [maps |-> merged.reg.maps, lists |-> merged.reg.lists,
                  facs |-> reg.facs]
        listed == ListObjectFactories(after.maps, self, after.maps[self])
        rebound == [f \in 1..Len(after.facs) |->
                      IF \E i \in 1..Len(listed.objs) : listed.objs[i] = FacRef(f)
                      THEN [after.facs[f] EXCEPT !.containers = self]
                      ELSE after.facs[f]]
    IN IF ~merged.ok THEN [reg |-> after, res |-> Raise(ErrAttributeError, "")]
       ELSE IF ~listed.ok THEN [reg |-> after, res |-> Raise(ErrRecursion, "")]
       ELSE IF \E i \in 1..Len(listed.objs) : listed.objs[i].t # "factory"
       THEN [reg |-> after, res |-> Raise(ErrAttributeError, "")]
       ELSE [reg |-> [after EXCEPT !.facs = rebound], res |-> Return(None)]

\* Container.__getattr__: dict.get gives None for a missing key and never
\* raises, so the alias index is consulted only if the first lookup raised.
ContainerGetAttr(mp, root, key) ==
    LET direct == Return(MapGetAttr(mp[root], key))
        alias == MapGetAttr(mp[KwGet(mp[root], "_alias").m], key)
    IN IF direct.ok THEN direct
       ELSE Return(alias)

(***************************************************************************)
(* The calls an application makes.                                         *)
(***************************************************************************)
Req(class_object, args, kwargs, group, alias, config) ==
    [class_object |-> Cls(class_object), args |-> args, kwargs |-> kwargs,
     group |-> group, alias |-> alias, config |-> config]

ConfigKey1 == DependencyConfig(<<"section1", "key1">>, None, "str")
ConfigKey2 == DependencyConfig(<<"section1", "key2">>, None, "str")
ConfigKey3 == DependencyConfig(<<"section1", "key3">>, PyStr("3"), "int")
ConfigNoSection == DependencyConfig(<<"section1">>, None, "str")
TestCallback == DependencyCallback("callback", TRUE, <<>>, NoKw)
ClassCallback == DependencyCallback("callback_class", TRUE, <<>>, NoKw)
ProviderAPath == <<"test", "test_container", "ProviderA">>
ProviderBPath == <<"test", "test_container", "ProviderB">>

\* An application is the calls it may make: the register calls on facades A
\* and B, the descriptors it resolves directly against A's registry map, the
\* extra arguments it gives instance() and build(), the attributes it reads
\* from facade A, the values it stores under section1.key1 of a Config
\* instance, the number of objects it constructs and of classes it registers,
\* whether it merges facade B into facade A, and the positional arguments
\* with which it calls a factory object, and the register calls its threads
\* make concurrently.
NoApp ==
    [regsA |-> {}, regsB |-> {}, descriptors |-> {}, args |-> {<<>>},
     kwargs |-> {NoKw}, attrs |-> {}, values |-> {}, objs |-> MaxObjs,
     facs |-> MaxFacs, update |-> FALSE, calls |-> {}, concurrent |-> {}]

Apps ==
    [ TestDependency |->
        [NoApp EXCEPT
          !.regsA = { Req("ProviderA", <<PyInt(5)>>, NoKw, None, None, FALSE),
                      Req("ServiceA", <<Cls("ProviderA")>>, NoKw, None, None, FALSE),
                      Req("ServiceA", <<>>, <<(<<"provider", TestCallback>>)>>,
                          None, None, FALSE) }],
      TestDependencyConfig |->
        [NoApp EXCEPT
          !.regsA = { Req("Config", <<>>, NoKw, None, None, TRUE),
                      Req("ProviderA", <<PyInt(5)>>, NoKw, None, None, TRUE),
                      Req("ProviderA", <<ConfigKey1>>, NoKw, None, None, FALSE) },
          !.descriptors = { ConfigKey1, ConfigKey3, ConfigNoSection },
          !.objs = MaxObjs - 1],
      TestDependencyCallback |->
        [NoApp EXCEPT
          !.regsA = { Req("Config", <<>>, NoKw, None, None, TRUE),
                      Req("ServiceA", <<TestCallback>>, NoKw, None, None, FALSE) },
          !.values = { PyInt(2) },
          !.objs = MaxObjs + 2],
      TestDependencyGroup |->
        [NoApp EXCEPT
          !.regsA = { Req("ProviderA", <<ConfigKey2>>, NoKw, PyStr("providers"),
                          None, FALSE),
                      Req("ProviderA", <<PyInt(5)>>, NoKw, PyStr("providers"),
                          None, FALSE),
                      Req("ProviderB", <<PyInt(5)>>, NoKw, PyStr("providers"),
                          None, FALSE) },
          !.descriptors = { DependencyGroup("providers", TRUE, <<>>, NoKw),
                            DependencyGroup("providers", FALSE, <<>>, NoKw),
                            DependencyGroup("services", TRUE, <<>>, NoKw) }],
      TestDependencyPath |->
        [NoApp EXCEPT
          !.regsA = { Req("ProviderA", <<PyInt(5)>>, NoKw, None, None, FALSE),
                      Req("TopProviderB", <<>>, NoKw, None, None, FALSE),
                      Req("ServiceA", <<DependencyPath(ProviderAPath, TRUE, <<>>, NoKw)>>,
                          NoKw, None, None, FALSE) },
          !.descriptors = { Dependency(Cls("ProviderB"), TRUE, <<PyInt(7)>>, NoKw),
                            Dependency(Cls("ProviderA"), FALSE, <<>>, NoKw),
                            DependencyPath(ProviderAPath, TRUE, <<>>, NoKw),
                            DependencyPath(ProviderBPath, TRUE, <<PyInt(7)>>, NoKw) }],
      Arguments |->
        [NoApp EXCEPT
          !.regsA = { Req("ProviderA", <<>>, NoKw, None, None, FALSE),
                      Req("ServiceA", <<ClassCallback>>, NoKw, None, None, FALSE) },
          !.args = { <<>>, <<PyInt(7)>> },
          !.kwargs = { NoKw, <<(<<"value", PyInt(9)>>)>> }],
      GroupOfItself |->
        [NoApp EXCEPT
          !.regsA = { Req("ServiceC", <<DependencyGroup("services", TRUE, <<>>, NoKw)>>,
                          NoKw, PyStr("services"), None, FALSE) },
          !.objs = MaxDepth + 1],
      NamespaceClass |->
        [NoApp EXCEPT
          !.regsA = { Req("ProviderA", <<PyInt(5)>>, NoKw, None, None, FALSE),
                      Req("test_container", <<>>, NoKw, None, None, FALSE) }],
      Threads |->
        [NoApp EXCEPT
          !.regsA = { Req("ProviderA", <<PyInt(5)>>, NoKw, None, None, FALSE) },
          !.concurrent = { Req("ProviderA", <<PyInt(5)>>, NoKw, None, None, FALSE),
                           Req("ProviderB", <<PyInt(5)>>, NoKw, PyStr("providers"),
                               None, FALSE) }],
      Calls |->
        [NoApp EXCEPT
          !.regsA = { Req("ProviderA", <<>>, NoKw, None, None, FALSE),
                      Req("ProviderA", <<PyInt(5)>>, NoKw, None, None, FALSE) },
          !.calls = { <<>>, <<PyInt(7)>>, <<PyBool(TRUE)>>, <<PyBool(TRUE), PyInt(7)>>,
                      <<PyBool(FALSE), PyInt(7)>> }],
      Merge |->
        [NoApp EXCEPT
          !.regsA = { Req("Config", <<>>, NoKw, None, PyStr("config"), TRUE),
                      Req("ProviderA", <<PyInt(5)>>, NoKw, PyStr("providers"),
                          None, FALSE) },
          !.regsB = { Req("Config", <<>>, NoKw, None, None, TRUE),
                      Req("ProviderB", <<PyInt(5)>>, NoKw, PyStr("providers"),
                          PyStr("b"), FALSE) },
          !.attrs = { "test", "config", "missing" },
          !.objs = MaxObjs - 2,
          !.update = TRUE],
      MergeRegisteredTwice |->
        [NoApp EXCEPT
          !.regsA = { Req("Config", <<>>, NoKw, None, None, TRUE) },
          !.regsB = { Req("ProviderB", <<PyInt(5)>>, NoKw, PyStr("providers"),
                          PyStr("b"), FALSE),
                      Req("ProviderB", <<PyInt(5)>>, NoKw, None, None, FALSE) },
          !.objs = MaxObjs - 2,
          !.facs = MaxFacs + 1,
          !.update = TRUE] ]

AppNames == DOMAIN Apps

RegistrationsOf(a, c) == IF c = "A" THEN Apps[a].regsA ELSE Apps[a].regsB

\* last: the call (op; the facade c, factory f, descriptor d or attribute key
\* it was made on; its extra args and kwargs; the request req of a register
\* call), its outcome res, and how many constructor calls and descriptor
\* resolutions it made.
NoCall ==
    [op |-> "", c |-> "", f |-> 0, d |-> None, key |-> "", args |-> <<>>,
     kwargs |-> NoKw, res |-> Return(None), ctors |-> 0, builds |-> 0,
     req |-> None]

Threads == {1, 2}

\* _THREADING_LOCK = rwlock.RWLockWrite(), held by nobody
Unlocked == [readers |-> {}, writer |-> 0]

\* A thread outside every call.  pc is the statement it is at and access says
\* whether it is inside that statement's access to a map or list ("read",
\* "write") or not ("none"); op, req, f, paths, current_level, group, instance
\* and ret are the call it makes, its local variables and what it returned.
Idle ==
    [pc |-> "idle", access |-> "none", calls |-> 0, op |-> "", req |-> None,
     f |-> 0, paths |-> <<>>, current_level |-> 0, group |-> None,
     instance |-> None, ret |-> None]

\* History of the threads' calls: the factories whose class a thread's
\* instance() constructed (one entry per construction), the factories on
\* which two instance() calls were past the test of the cache at once, the
\* cache writes <<factory, object>> in their order, and the register calls
\* <<class, factory>> that returned.
NoHistory == [created |-> <<>>, raced |-> {}, written |-> <<>>, registered |-> {}]

Init ==
    /\ maps = <<(<<>>), (<<>>), NewContainer(1, 2), (<<>>), (<<>>), NewContainer(4, 5)>>
    /\ lists = <<>>
    /\ facs = <<>>
    /\ heap = <<>>
    /\ app \in AppNames
    /\ last = NoCall
    /\ lock = Unlocked
    /\ th = [t \in Threads |-> Idle]
    /\ hist = NoHistory

\* c.register(class_object, *args, **kwargs)
Register(c, req) ==
    /\ Len(facs) < Apps[app].facs
    /\ LET out == ContainerRegister([maps |-> maps, lists |-> lists, facs |-> facs],
                                    Root(c), req)
       IN /\ maps' = out.reg.maps
          /\ lists' = out.reg.lists
          /\ facs' = out.reg.facs
          /\ last' = [NoCall EXCEPT !.op = "register", !.c = c, !.req = req,
                                    !.f = Len(facs) + 1, !.res = out.res]
    /\ UNCHANGED <<heap, app, thvars>>

Began == [heap |-> heap, facs |-> facs, ctors |-> 0, builds |-> 0]

Finish(op, f, c, d, args, kwargs, out) ==
    /\ Len(out.st.heap) <= Apps[app].objs
    /\ heap' = out.st.heap
    /\ facs' = out.st.facs
    /\ last' = [op |-> op, c |-> c, f |-> f, d |-> d, key |-> "", args |-> args,
                kwargs |-> kwargs, res |-> out.res,
                ctors |-> out.st.ctors, builds |-> out.st.builds, req |-> None]
    /\ UNCHANGED <<maps, lists, app, thvars>>

\* f.instance(*args, **kwargs)
Instance(f, args, kwargs) ==
    Finish("instance", f, "", None, args, kwargs,
           FactoryInstance(maps, lists, Began, f, args, kwargs, MaxDepth))

\* f.build(*args, **kwargs)
Build(f, args, kwargs) ==
    Finish("build", f, "", None, args, kwargs,
           FactoryBuild(maps, lists, Began, f, args, kwargs, MaxDepth))

\* f(*args, **kwargs)
Call(f, args, kwargs) ==
    Finish("call", f, "", None, args, kwargs,
           FactoryCall(maps, lists, Began, f, args, kwargs, MaxDepth))

\* d.build(c.list())
Resolve(c, d) ==
    Finish("resolve", 0, c, d, <<>>, NoKw,
           DescriptorBuild(maps, lists, Began, d, Root(c), MaxDepth))

\* c.key
GetAttr(c, key) ==
    /\ last' = [NoCall EXCEPT !.op = "getattr", !.c = c, !.key = key,
                              !.res = ContainerGetAttr(maps, Root(c), key)]
    /\ UNCHANGED <<maps, lists, facs, heap, app, thvars>>

\* config.set("section1", "key1", value) on the singleton of a Config factory
SetConfig(o, value) ==
    /\ heap[o].cls = "Config"
    /\ \E f \in 1..Len(facs) : facs[f].instance = Obj(o)
    /\ heap' = [heap EXCEPT ![o] = ConfigSet(@, "section1", "key1", value)]
    /\ last' = [NoCall EXCEPT !.op = "set"]
    /\ UNCHANGED <<maps, lists, facs, app, thvars>>

\* A.update(B)
Update(a, b) ==
    /\ LET out == ContainerUpdate([maps |-> maps, lists |-> lists, facs |-> facs],
                                  Root(a), Root(b))
       IN /\ maps' = out.reg.maps
          /\ lists' = out.reg.lists
          /\ facs' = out.reg.facs
          /\ \A l \in 1..Len(out.reg.lists) : Len(out.reg.lists[l]) <= MaxList
          /\ last' = [NoCall EXCEPT !.op = "update", !.c = a, !.res = out.res]
    /\ UNCHANGED <<heap, app, thvars>>

Next ==
    \/ \E c \in Facades : \E req \in RegistrationsOf(app, c) : Register(c, req)
    \/ \E f \in 1..Len(facs) : \E args \in Apps[app].args :
         \E kwargs \in Apps[app].kwargs : Instance(f, args, kwargs)
    \/ \E f \in 1..Len(facs) : \E args \in Apps[app].args :
         \E kwargs \in Apps[app].kwargs : Build(f, args, kwargs)
    \/ \E f \in 1..Len(facs) : \E args \in Apps[app].calls :
         \E kwargs \in Apps[app].kwargs : Call(f, args, kwargs)
    \/ \E d \in Apps[app].descriptors : Resolve("A", d)
    \/ \E key \in Apps[app].attrs : GetAttr("A", key)
    \/ \E o \in 1..Len(heap) : \E value \in Apps[app].values : SetConfig(o, value)
    \/ Apps[app].update /\ Update("A", "B")

Spec == Init /\ [][Next]_vars

(***************************************************************************)
(* Threads.  Several threads call register and instance() on facade A; a   *)
(* thread switch can come between any two statements.  An access to a map  *)
(* or list takes two steps, Enter and Exit, and the thread is inside the   *)
(* access in between; an access made under "with _THREADING_LOCK..."       *)
(* acquires the lock on Enter and releases it on Exit.                     *)
(***************************************************************************)
\* The statements of register that access a map or a list, and how:
\*   group_test    if group_name not in self.__container._group      (dict.__contains__)
\*   group_new     self.__container._group[group_name] = []          (__setitem__)
\*   group_get     self.__container._group[group_name]               (__getitem__)
\*   group_append  .append(obj)                                      (list.append)
\*   alias_set     self.__container._alias[alias_name] = obj         (__setitem__)
\*   config_set    self.__container["_config"] = obj                 (__setitem__)
\*   path_test     if path not in current_level                      (dict.__contains__)
\*   path_new      current_level[path] = ObjectFactoryMap()          (__setitem__)
\*   leaf_set      current_level[path] = obj                         (__setitem__)
\*   path_next     current_level = current_level[path]               (__getitem__)
LockedReads == {"group_get", "path_next"}
LockedWrites == {"group_new", "alias_set", "config_set", "path_new", "leaf_set"}
UnlockedReads == {"group_test", "path_test"}
UnlockedWrites == {"group_append"}

AccessOf(pc) == IF pc \in LockedReads \cup UnlockedReads THEN "read" ELSE "write"

\* The statement of the loop over paths that comes first for what is left.
LoopPc(paths) ==
    IF paths = <<>> THEN "return"
    ELSE IF Len(paths) = 1 THEN "leaf_set" ELSE "path_test"

AfterAlias(req) == IF req.config THEN "config_set" ELSE "loop"

AfterGroup(req) == IF req.alias # None THEN "alias_set" ELSE AfterAlias(req)

AfterFactory(req) == IF req.group # None THEN "group_test" ELSE AfterGroup(req)

\* "loop" stands for the first statement of the loop.
Goto(self, pc) == IF pc = "loop" THEN LoopPc(self.paths) ELSE pc

AllIdle == \A t \in Threads : th[t].pc = "idle" /\ th[t].calls = 0

\* The main thread registers a class before any thread has started.
MainRegister(req) ==
    /\ AllIdle
    /\ Register("A", req)

\* Thread t calls A.register(req): the start of register, up to
\* obj = ObjectFactory(class_object, self.__container, *args, **kwargs).
StartRegister(t, req) ==
    /\ th[t].pc = "idle"
    /\ th[t].calls < MaxCalls
    /\ Len(facs) < Apps[app].facs
    /\ facs' = Append(facs, ObjectFactory(req.class_object, Root("A"),
                                          WrapArgs(req.args), WrapKwargs(req.kwargs)))
    /\ LET self == [th[t] EXCEPT !.op = "register", !.req = req,
                                 !.f = Len(facs) + 1,
                                 !.paths = RetrieveClassPath(req.class_object).val,
                                 !.current_level = Root("A"), !.ret = None]
       IN th' = [th EXCEPT ![t] = [self EXCEPT !.pc = Goto(self, AfterFactory(req))]]
    /\ UNCHANGED <<maps, lists, heap, app, last, lock, hist>>

\* Thread t begins the access of the statement it is at: gen_rlock() or
\* gen_wlock() is entered first when the access is made under the lock.
Enter(t) ==
    /\ th[t].access = "none"
    /\ th[t].pc \in LockedReads \cup LockedWrites \cup UnlockedReads \cup UnlockedWrites
    /\ CASE th[t].pc \in LockedReads ->
               /\ lock.writer = 0
               /\ lock' = [lock EXCEPT !.readers = @ \cup {t}]
         [] th[t].pc \in LockedWrites ->
               /\ lock.writer = 0
               /\ lock.readers = {}
               /\ lock' = [lock EXCEPT !.writer = t]
         [] OTHER -> lock' = lock
    /\ th' = [th EXCEPT ![t].access = AccessOf(th[t].pc)]
    /\ UNCHANGED <<maps, lists, facs, heap, app, last, hist>>

\* What the access of thread t does to the maps and lists, and where the
\* thread goes next.
Accessed(self) ==
    LET root == Root("A")
        group == KwGet(maps[root], "_group").m
        alias == KwGet(maps[root], "_alias").m
        path == Head(self.paths)
        same == [maps |-> maps, lists |-> lists]
    IN CASE self.pc = "group_test" ->
              [reg |-> same,
               self |-> [self EXCEPT !.pc = IF MapHas(maps[group], self.req.group.s)
                                            THEN "group_get" ELSE "group_new"]]
         [] self.pc = "group_new" ->
              [reg |-> [maps |-> [maps EXCEPT ![group] =
                                    MapSetItem(@, self.req.group.s,
                                               ListRef(Len(lists) + 1))],
                        lists |-> Append(lists, <<>>)],
               self |-> [self EXCEPT !.pc = "group_get"]]
         [] self.pc = "group_get" ->
              [reg |-> same,
               self |-> [self EXCEPT !.pc = "group_append",
                                     !.group = KwGet(maps[group], self.req.group.s)]]
         [] self.pc = "group_append" ->
              [reg |-> [same EXCEPT !.lists[self.group.l] = Append(@, self.f)],
               self |-> [self EXCEPT !.pc = Goto(self, AfterGroup(self.req))]]
         [] self.pc = "alias_set" ->
              [reg |-> [same EXCEPT !.maps[alias] =
                            MapSetItem(@, self.req.alias.s, FacRef(self.f))],
               self |-> [self EXCEPT !.pc = Goto(self, AfterAlias(self.req))]]
         [] self.pc = "config_set" ->
              [reg |-> [same EXCEPT !.maps[root] =
                            MapSetItem(@, "_config", FacRef(self.f))],
               self |-> [self EXCEPT !.pc = Goto(self, "loop")]]
         [] self.pc = "path_test" ->
              [reg |-> same,
               self |-> [self EXCEPT !.pc = IF MapHas(maps[self.current_level], path)
                                            THEN "path_next" ELSE "path_new"]]
         [] self.pc = "path_new" ->
              [reg |-> [maps |-> Append([maps EXCEPT ![self.current_level] =
                                            MapSetItem(@, path, MapRef(Len(maps) + 1))],
                                        <<>>),
                        lists |-> lists],
               self |-> [self EXCEPT !.pc = "path_next"]]
         [] self.pc = "leaf_set" ->
              [reg |-> [same EXCEPT !.maps[self.current_level] =
                            MapSetItem(@, path, FacRef(self.f))],
               self |-> [self EXCEPT !.pc = "path_next"]]
         [] self.pc = "path_next" ->
              [reg |-> same,
               self |-> [self EXCEPT
                           !.pc = LoopPc(Tail(self.paths)),
                           !.paths = Tail(self.paths),
                           !.current_level =
                              IF KwGet(maps[self.current_level], path).t = "map"
                              THEN KwGet(maps[self.current_level], path).m
                              ELSE 0]]

\* Thread t ends its access: the map or list is read or written, and the lock
\* is released if the statement took it.
Exit(t) ==
    /\ th[t].access # "none"
    /\ LET done == Accessed(th[t]) IN
       /\ maps' = done.reg.maps
       /\ lists' = done.reg.lists
       /\ th' = [th EXCEPT ![t] = [done.self EXCEPT !.access = "none"]]
    /\ lock' = [readers |-> lock.readers \ {t},
                writer |-> IF lock.writer = t THEN 0 ELSE lock.writer]
    /\ UNCHANGED <<facs, heap, app, last, hist>>

\* register returns to thread t.
ReturnRegister(t) ==
    /\ th[t].pc = "return"
    /\ th' = [th EXCEPT ![t].pc = "idle", ![t].calls = @ + 1,
                        ![t].ret = Return(None)]
    /\ hist' = [hist EXCEPT !.registered =
                   @ \cup {<<th[t].req.class_object.c, th[t].f>>}]
    /\ UNCHANGED <<maps, lists, facs, heap, app, last, lock>>

\* Thread t calls instance() on factory f, which it retrieved from A by the
\* path of a class (as retrieve_instance of the tests does).
StartInstance(t, f) ==
    /\ th[t].pc = "idle"
    /\ th[t].calls < MaxCalls
    /\ f \in 1..Len(facs)
    /\ \E c \in ClassNames :
          WalkPath(maps, Root("A"), RetrieveClassPath(Cls(c)).val, None) = FacRef(f)
    /\ th' = [th EXCEPT ![t].pc = "instance_test", ![t].op = "instance",
                        ![t].f = f, ![t].instance = None, ![t].ret = None]
    /\ UNCHANGED <<maps, lists, facs, heap, app, last, lock, hist>>

\* The threads that found the cache of factory f empty and have not stored yet.
Creating(f) ==
    {u \in Threads : th[u].f = f /\ th[u].pc \in {"instance_create", "instance_store"}}

\* An instance() that constructs whatever the cache holds.
InstanceTestAlways(t) ==
    /\ th[t].pc = "instance_test"
    /\ th' = [th EXCEPT ![t].pc = "instance_create"]
    /\ UNCHANGED <<maps, lists, facs, heap, app, last, lock, hist>>

\* if self.__instance is None:
InstanceTest(t) ==
    /\ th[t].pc = "instance_test"
    /\ th' = [th EXCEPT ![t].pc = IF facs[th[t].f].instance = None
                                  THEN "instance_create" ELSE "instance_return"]
    /\ hist' = IF facs[th[t].f].instance = None /\ Creating(th[t].f) # {}
               THEN [hist EXCEPT !.raced = @ \cup {th[t].f}]
               ELSE hist
    /\ UNCHANGED <<maps, lists, facs, heap, app, last, lock>>

\* instance = self.__create_instance(*args, **kwargs)
InstanceCreate(t) ==
    /\ th[t].pc = "instance_create"
    /\ LET made == FactoryCreateInstance(maps, lists, Began, th[t].f, <<>>, NoKw,
                                         MaxDepth)
       IN /\ Len(made.st.heap) <= Apps[app].objs
          /\ heap' = made.st.heap
          /\ facs' = made.st.facs
          /\ IF made.res.ok
             THEN /\ th' = [th EXCEPT ![t].pc = "instance_store",
                                      ![t].instance = made.res.val]
                  /\ hist' = [hist EXCEPT !.created = Append(@, th[t].f)]
             ELSE /\ th' = [th EXCEPT ![t].pc = "idle", ![t].calls = @ + 1,
                                      ![t].ret = made.res]
                  /\ hist' = hist
    /\ UNCHANGED <<maps, lists, app, last, lock>>

\* self.__instance = instance
InstanceStore(t) ==
    /\ th[t].pc = "instance_store"
    /\ facs' = [facs EXCEPT ![th[t].f].instance = th[t].instance]
    /\ th' = [th EXCEPT ![t].pc = "instance_return"]
    /\ hist' = [hist EXCEPT !.written = Append(@, <<th[t].f, th[t].instance>>)]
    /\ UNCHANGED <<maps, lists, heap, app, last, lock>>

\* return self.__instance
InstanceReturn(t) ==
    /\ th[t].pc = "instance_return"
    /\ th' = [th EXCEPT ![t].pc = "idle", ![t].calls = @ + 1,
                        ![t].ret = Return(facs[th[t].f].instance)]
    /\ UNCHANGED <<maps, lists, facs, heap, app, last, lock, hist>>

InitThreads == Init /\ app = "Threads"

NextThreads ==
    \/ \E req \in Apps[app].regsA : MainRegister(req)
    \/ \E t \in Threads : \E req \in Apps[app].concurrent : StartRegister(t, req)
    \/ \E t \in Threads : Enter(t)
    \/ \E t \in Threads : Exit(t)
    \/ \E t \in Threads : ReturnRegister(t)
    \/ \E t \in Threads : \E f \in 1..Len(facs) : StartInstance(t, f)
    \/ \E t \in Threads : InstanceTest(t)
    \/ \E t \in Threads : InstanceCreate(t)
    \/ \E t \in Threads : InstanceStore(t)
    \/ \E t \in Threads : InstanceReturn(t)

SpecThreads == InitThreads /\ [][NextThreads]_vars

\* The entry at a path, each segment looked up in the map the one before gave.
RECURSIVE StrictLookup(_, _, _)
StrictLookup(mp, m, path) ==
    LET v == MapGetAttr(mp[m], Head(path)) IN
    IF Len(path) = 1 THEN v
    ELSE IF v.t = "map" THEN StrictLookup(mp, v.m, Tail(path))
    ELSE None

\* The factory registered for a class in the registry with root map m, or None.
FactoryAt(mp, m, c) ==
    LET v == StrictLookup(mp, m, RetrieveClassPath(Cls(c)).val) IN
    IF v.t = "factory" THEN v ELSE None

(***************************************************************************)
(* Properties.                                                             *)
(***************************************************************************)
Called(op) == last.op = op /\ last.res.ok

\* C1: on one factory, every instance() returns the cached object, which is
\* never replaced once set, and every build() returns an object that did not
\* exist before the call and is not the cached one.
C1_InstanceCachedBuildFresh ==
    [][ /\ \A f \in 1..Len(facs) :
              facs[f].instance # None => facs'[f].instance = facs[f].instance
        /\ (last'.op = "instance" /\ last'.res.ok) =>
              last'.res.val = facs'[last'.f].instance
        /\ (last'.op = "build" /\ last'.res.ok) =>
              /\ last'.res.val.id \notin 1..Len(heap)
              /\ last'.res.val.id \in 1..Len(heap')
              /\ last'.res.val # facs'[last'.f].instance ]_vars

\* A build() that succeeded on a factory whose singleton exists, after an
\* earlier build(): three objects of the factory's class are alive.
C1_Witness ==
    /\ Called("build")
    /\ facs[last.f].instance # None
    /\ facs[last.f].instance # last.res.val
    /\ Cardinality({o \in 1..Len(heap) : heap[o].cls = facs[last.f].class_object.c}) >= 3

\* C2 (as claimed): resolving a Direct descriptor for a class with no factory
\* at its path, with extra args the class's constructor accepts, returns a new
\* instance of that class, cached by no factory.
C2_UnregisteredIsFresh ==
    (/\ last.op = "resolve"
     /\ last.d.t = "Dependency"
     /\ last.d.class.t = "class"
     /\ FactoryAt(maps, Root(last.c), last.d.class.c) = None
     /\ Ctor(heap, last.d.class.c, last.d.args, last.d.kwargs).ok)
    => /\ last.res.ok
       /\ heap[last.res.val.id].cls = last.d.class.c
       /\ \A f \in 1..Len(facs) : facs[f].instance # last.res.val

\* C3 (as claimed): A.update(B) returns, and every class registered in B then
\* has a factory at its path in A that resolves against A's registry.
C3_UpdateMergesB ==
    last.op = "update"
    => /\ last.res.ok
       /\ \A c \in ClassNames :
            FactoryAt(maps, Root("B"), c) # None
            => /\ FactoryAt(maps, Root("A"), c) # None
               /\ facs[FactoryAt(maps, Root("A"), c).f].containers = Root("A")

\* C4 (as claimed): reading an attribute that is no top-level key of the
\* registry gives the alias's factory, or raises "Dependency is not register".
C4_AliasFallback ==
    (last.op = "getattr" /\ ~MapHas(maps[Root(last.c)], last.key))
    => LET alias == maps[KwGet(maps[Root(last.c)], "_alias").m] IN
       IF MapHas(alias, last.key)
       THEN last.res = Return(KwGet(alias, last.key))
       ELSE ~last.res.ok /\ last.res.err = ErrDependencyNotRegister

IsCallbackService(F) ==
    F.class_object = Cls("ServiceA") /\ F.dependency_args = <<TestCallback>>

\* The class of the provider a ServiceA object holds.
ProviderClass(hp, service) == hp[hp[service.id].attr.id].cls

\* section1.key1 in the singleton of the designated config of registry m.
Key1(mp, fs, hp, m) ==
    hp[fs[KwGet(mp[m], "_config").f].instance.id].attr.d.section1.key1

\* The provider TestDependencyCallback.callback picks for a value of key1.
Chosen(key1) == IF key1 = PyStr("1") THEN "ProviderA" ELSE "ProviderB"

\* C5: a ServiceA registered with the callback descriptor keeps its singleton
\* and the singleton's provider whatever happens to the config, and a build()
\* holds the provider picked for the config value at the time of the call.
C5_SingletonKeepsProviderBuildFollowsConfig ==
    [][ \A f \in 1..Len(facs) : IsCallbackService(facs[f]) =>
          /\ facs[f].instance # None =>
                /\ facs'[f].instance = facs[f].instance
                /\ ProviderClass(heap', facs'[f].instance)
                     = ProviderClass(heap, facs[f].instance)
                /\ (last'.op = "instance" /\ last'.f = f) =>
                      last'.res = Return(facs[f].instance)
          /\ (last'.op = "build" /\ last'.f = f /\ last'.res.ok) =>
                ProviderClass(heap', last'.res.val)
                  = Chosen(Key1(maps', facs', heap', facs'[f].containers)) ]_vars

\* The singleton holds a ProviderA, the config was changed, and build() gave
\* a service that holds a ProviderB.
C5_Witness ==
    /\ Called("build")
    /\ IsCallbackService(facs[last.f])
    /\ facs[last.f].instance # None
    /\ ProviderClass(heap, facs[last.f].instance) = "ProviderA"
    /\ ProviderClass(heap, last.res.val) = "ProviderB"

\* ServiceA registered as register(ServiceA, ProviderA).
IsDirectService(F) ==
    /\ F.class_object = Cls("ServiceA")
    /\ Len(F.dependency_args) = 1
    /\ F.dependency_args[1].t = "Dependency"
    /\ F.dependency_args[1].class = Cls("ProviderA")
    /\ F.dependency_args[1].args = <<>>
    /\ F.dependency_args[1].kwargs = NoKw
    /\ F.dependency_kwargs = NoKw

\* C6 (as claimed): the ProviderA held by the result of ServiceA.build() is
\* another object than the ProviderA held by ServiceA's singleton.
C6_BuildHoldsOwnProvider ==
    (/\ Called("build")
     /\ IsDirectService(facs[last.f])
     /\ facs[last.f].instance # None)
    => heap[last.res.val.id].attr # heap[facs[last.f].instance.id].attr

\* C6 (amended): ServiceA.build() returns a new ServiceA, not the singleton,
\* and the ProviderA it holds is the cached singleton of the ProviderA factory
\* registered at the time of the call; no ProviderA is constructed when that
\* singleton already exists.
C6_BuildHoldsProviderSingleton ==
    [][ (/\ last'.op = "build"
         /\ last'.res.ok
         /\ IsDirectService(facs[last'.f])
         /\ FactoryAt(maps, facs[last'.f].containers, "ProviderA") # None) =>
          LET pa == FactoryAt(maps, facs[last'.f].containers, "ProviderA") IN
          /\ last'.res.val.id \notin 1..Len(heap)
          /\ last'.res.val # facs'[last'.f].instance
          /\ heap'[last'.res.val.id].attr = facs'[pa.f].instance
          /\ facs[pa.f].instance # None =>
                /\ facs'[pa.f].instance = facs[pa.f].instance
                /\ last'.ctors = 1 ]_vars

\* build() after instance(): two ServiceA objects that hold one ProviderA.
C6_Witness ==
    /\ Called("build")
    /\ IsDirectService(facs[last.f])
    /\ facs[last.f].instance # None
    /\ last.res.val # facs[last.f].instance
    /\ heap[last.res.val.id].attr = heap[facs[last.f].instance.id].attr

\* C7: resolving a Group descriptor returns a list: empty for a name the group
\* index does not have, and otherwise one object per member whose resolution
\* succeeds, in the order of the group list: the member's singleton, or a new
\* object when the descriptor's flag is false.  It never raises.
C7_GroupSkipsFailures ==
    [][ (last'.op = "resolve" /\ last'.d.t = "DependencyGroup") =>
          LET d == last'.d
              index == maps[KwGet(maps[Root(last'.c)], "_group").m]
              Succeeds(m) ==
                  Dispatch(maps, lists, Began, FacRef(m), d, MaxDepth).res.ok
              members == IF MapHas(index, d.group_name)
                         THEN lists[KwGet(index, d.group_name).l]
                         ELSE <<>>
              good == SelectSeq(members, Succeeds)
              items == last'.res.val.items
          IN /\ last'.res.ok
             /\ last'.res.val.t = "list"
             /\ Len(items) = Len(good)
             /\ \A i \in 1..Len(good) :
                  /\ heap'[items[i].id].cls = facs[good[i]].class_object.c
                  /\ IF d.single_instance = FALSE
                     THEN items[i].id \notin 1..Len(heap)
                     ELSE items[i] = facs'[good[i]].instance ]_vars

\* A group of which one member was skipped and another resolved.
C7_Witness ==
    /\ last.op = "resolve"
    /\ last.d.t = "DependencyGroup"
    /\ last.res.ok
    /\ LET index == maps[KwGet(maps[Root(last.c)], "_group").m] IN
       /\ MapHas(index, last.d.group_name)
       /\ Len(last.res.val.items) >= 1
       /\ Len(last.res.val.items) < Len(lists[KwGet(index, last.d.group_name).l])

\* C8: instance() on a factory whose singleton exists returns that singleton
\* whatever the extra arguments, calls no constructor, resolves no descriptor
\* and changes neither the heap nor any factory.
C8_CachedInstanceIgnoresArgs ==
    [][ (last'.op = "instance" /\ facs[last'.f].instance # None) =>
          /\ last'.res = Return(facs[last'.f].instance)
          /\ last'.ctors = 0
          /\ last'.builds = 0
          /\ heap' = heap
          /\ facs' = facs ]_vars

\* The singleton made by instance(7) came back from instance(value=9).
C8_Witness ==
    /\ Called("instance")
    /\ last.ctors = 0
    /\ last.kwargs = <<(<<"value", PyInt(9)>>)>>
    /\ heap[last.res.val.id].attr = PyStr("A.7")

StoredDescriptors(F) ==
    {F.dependency_args[i] : i \in 1..Len(F.dependency_args)}
        \cup {F.dependency_kwargs[i][2] : i \in 1..Len(F.dependency_kwargs)}

\* C9 (as claimed): what a factory stores for each argument is a descriptor,
\* and never a Direct descriptor wrapped around another descriptor.
C9_DescriptorsKeptAsGiven ==
    \A f \in 1..Len(facs) : \A d \in StoredDescriptors(facs[f]) :
        /\ d.t \in DescriptorClasses
        /\ d.t = "Dependency" => d.class.t \notin DescriptorClasses

\* C10 (as claimed): instance() and build() on the factory of X raise nothing
\* but "Unable to create X".
C10_OnlyUnableToCreate ==
    (last.op \in {"instance", "build"} /\ ~last.res.ok)
    => last.res = Raise(ErrUnableToCreate, facs[last.f].class_object.c)

\* C10 (amended): when all descriptors of X's factory resolve and the
\* constructor raises, the caller gets "Unable to create X"; when a descriptor
\* fails to resolve, the caller gets that descriptor's own error, unchanged.
C10_ConstructorWrappedDescriptorNot ==
    [][ (last'.op \in {"instance", "build"} /\ ~last'.res.ok) =>
          LET self == facs[last'.f]
              built == BuildAll(maps, lists, Began,
                                self.dependency_args \o Values(self.dependency_kwargs),
                                self.containers, MaxDepth)
          IN IF built.res.ok
             THEN last'.res = Raise(ErrUnableToCreate, self.class_object.c)
             ELSE last'.res = built.res ]_vars

\* A factory whose Config descriptor found no designated config.
C10_Witness ==
    /\ last.op \in {"instance", "build"}
    /\ ~last.res.ok
    /\ last.res.err = ErrConfigNotSet

\* C11: resolving a Config descriptor raises "config not set" when the
\* registry designates no config factory; otherwise it takes that factory's
\* singleton (creating it if the cache is empty, "config not set" again if it
\* cannot be created), raises "must implement get" when the singleton has no
\* get method, and else gives what get(path, placeholder, format) gives on it.
C11_ConfigDescriptor ==
    [][ (last'.op = "resolve" /\ last'.d.t = "DependencyConfig") =>
          LET d == last'.d
              entry == KwGet(maps[Root(last'.c)], "_config")
          IN IF entry = None THEN last'.res = Raise(ErrConfigNotSet, "")
             ELSE LET config == facs'[entry.f].instance IN
                  /\ facs[entry.f].instance # None => config = facs[entry.f].instance
                  /\ IF config = None
                     THEN last'.res = Raise(ErrConfigNotSet, "")
                     ELSE IF heap'[config.id].cls # "Config"
                     THEN last'.res = Raise(ErrConfigGet, "")
                     ELSE last'.res = ConfigGet(heap'[config.id], d.config_path,
                                                d.placeholder, d.value_format) ]_vars

\* The placeholder of a missing key came back, formatted, from the singleton
\* of the designated config.
C11_Witness ==
    /\ Called("resolve")
    /\ last.d = ConfigKey3
    /\ last.res = Return(PyInt(3))
    /\ KwGet(maps[Root(last.c)], "_config") # None
    /\ facs[KwGet(maps[Root(last.c)], "_config").f].instance # None

\* The factories at the leaves of the registry with root map m (the
\* designated config among them).
RECURSIVE LeafFactories(_, _)
LeafFactories(mp, m) ==
    UNION { LET k == mp[m][i][1]
                v == mp[m][i][2]
            IN IF k \in {"_group", "_alias"} THEN {}
               ELSE IF v.t = "factory" THEN {v.f}
               ELSE IF v.t = "map" THEN LeafFactories(mp, v.m)
               ELSE {} : i \in 1..Len(mp[m]) }

\* The factories in the group lists and in the alias index of that registry.
IndexedFactories(mp, ls, m) ==
    LET group == mp[KwGet(mp[m], "_group").m]
        alias == mp[KwGet(mp[m], "_alias").m]
    IN UNION { {ls[group[i][2].l][j] : j \in 1..Len(ls[group[i][2].l])} :
               i \in 1..Len(group) }
         \cup {alias[i][2].f : i \in 1..Len(alias)}

\* C12 (as claimed): once A.update(B) has returned, every factory at a leaf of
\* A's registry, in its group index, in its alias index or designated as its
\* config refers back to A's registry map.
C12_MergedFactoriesReferToA ==
    (last.op = "update" /\ last.res.ok)
    => \A f \in LeafFactories(maps, Root(last.c))
                  \cup IndexedFactories(maps, lists, Root(last.c)) :
          facs[f].containers = Root(last.c)

\* The first positional argument of a call is a flag.
HasFlag(args) == args # <<>> /\ args[1].t = "bool"

\* C14 (as claimed): f(flag, *args, **kwargs) does what f.build(*args,
\* **kwargs) does when the flag is true and what f.instance(*args, **kwargs)
\* does otherwise; f(*args, **kwargs), with no flag, does what
\* f.instance(*args, **kwargs) does with all of args.
C14_CallForwardsItsArguments ==
    [][ last'.op = "call" =>
          LET f == last'.f
              args == last'.args
              claimed ==
                IF HasFlag(args)
                THEN IF args[1].b
                     THEN FactoryBuild(maps, lists, Began, f, Tail(args),
                                       last'.kwargs, MaxDepth)
                     ELSE FactoryInstance(maps, lists, Began, f, Tail(args),
                                          last'.kwargs, MaxDepth)
                ELSE FactoryInstance(maps, lists, Began, f, args,
                                     last'.kwargs, MaxDepth)
          IN /\ last'.res = claimed.res
             /\ heap' = claimed.st.heap
             /\ facs' = claimed.st.facs ]_vars

\* C15 (as claimed): build() on a factory leaves the cached singleton of that
\* factory as it was, empty or filled.
C15_BuildLeavesCache ==
    [][ last'.op = "build" =>
          facs'[last'.f].instance = facs[last'.f].instance ]_vars

\* C16: an instance() call that raises began with an empty cache and leaves it
\* empty; and every instance() call on an empty cache runs __create_instance
\* again (it resolves a descriptor or calls the constructor), caching and
\* returning a new object when that succeeds.
C16_FailedInstanceCachesNothing ==
    [][ last'.op = "instance" =>
          LET f == last'.f IN
          /\ ~last'.res.ok =>
                /\ facs[f].instance = None
                /\ facs'[f].instance = None
          /\ facs[f].instance = None =>
                /\ last'.ctors + last'.builds >= 1
                /\ last'.res.ok => /\ facs'[f].instance = last'.res.val
                                   /\ last'.res.val.id \notin 1..Len(heap) ]_vars

\* instance() failed on a factory whose dependency's singleton was made on
\* the way: the factory's own cache is still empty.
C16_Witness ==
    /\ last.op = "instance"
    /\ ~last.res.ok
    /\ last.ctors >= 1
    /\ Len(heap) >= 1
    /\ facs[last.f].instance = None

\* C18 (as claimed): a Direct descriptor whose class has no factory at its
\* path, and whose arguments the class accepts, and a Path descriptor whose
\* path has no factory both return a value instead of raising.
C18_PathTakesEscapeHatch ==
    (/\ last.op = "resolve"
     /\ \/ /\ last.d.t = "Dependency"
           /\ last.d.class.t = "class"
           /\ StrictLookup(maps, Root(last.c), RetrieveClassPath(last.d.class).val) = None
           /\ Ctor(heap, last.d.class.c, last.d.args, last.d.kwargs).ok
        \/ /\ last.d.t = "DependencyPath"
           /\ StrictLookup(maps, Root(last.c), last.d.path) = None)
    => last.res.ok

\* C19 (as claimed): a register call that returns leaves the new factory at
\* the leaf path of its class, leaves the factory at the leaf path of every
\* other class as it was, and, when it is given no _group, _alias or _config
\* option, leaves the group index, the group lists, the alias index and the
\* designated config as they were.
C19_RegisterWritesOneLeaf ==
    [][ (last'.op = "register" /\ last'.res.ok) =>
          LET root == Root(last'.c)
              req == last'.req
              group == KwGet(maps[root], "_group").m
              alias == KwGet(maps[root], "_alias").m
          IN /\ FactoryAt(maps', root, req.class_object.c) = FacRef(last'.f)
             /\ facs'[last'.f].class_object = req.class_object
             /\ \A k \in ClassNames \ {req.class_object.c} :
                  FactoryAt(maps', root, k) = FactoryAt(maps, root, k)
             /\ (req.group = None /\ req.alias = None /\ ~req.config) =>
                  /\ maps'[group] = maps[group]
                  /\ maps'[alias] = maps[alias]
                  /\ lists' = lists
                  /\ KwGet(maps'[root], "_config") = KwGet(maps[root], "_config") ]_vars

\* C13 (as claimed): a thread inside a read of a registry map holds the shared
\* side of the lock, a thread inside a write of a registry map or of a group
\* list holds the exclusive side, and no thread is inside a read while another
\* is inside a write.
C13_AccessesHoldTheLock ==
    /\ \A t \in Threads : th[t].access = "read" => t \in lock.readers
    /\ \A t \in Threads : th[t].access = "write" => lock.writer = t
    /\ \A t, u \in Threads :
         t # u => ~(th[t].access = "read" /\ th[u].access = "write")

\* How many times instance() calls of the threads constructed the class of f.
Constructions(f) ==
    Cardinality({i \in DOMAIN hist.created : hist.created[i] = f})

\* The objects the instance() calls of the threads stored in the cache of f.
WrittenTo(f) ==
    SelectSeq(hist.written, LAMBDA w : w[1] = f)

\* C17: the instance() calls of the threads construct the class of a factory
\* more than once only where two of them were past the test of the empty cache
\* at once (calls that do not overlap construct it at most once), and whenever
\* no store is pending the cache holds the object that was written last.
C17_TwiceOnlyWhenRacingLastWriteWins ==
    \A f \in 1..Len(facs) :
      /\ Constructions(f) > 1 => f \in hist.raced
      /\ WrittenTo(f) # <<>> =>
           facs[f].instance = WrittenTo(f)[Len(WrittenTo(f))][2]

\* C17's interleaving: both threads called instance() on the same factory with
\* its cache empty, the class was constructed twice, the callers hold different
\* objects, and the cache holds the one written last.
C17_Witness ==
    /\ th[1].op = "instance" /\ th[2].op = "instance"
    /\ th[1].pc = "idle" /\ th[2].pc = "idle"
    /\ th[1].f = th[2].f
    /\ th[1].ret # None /\ th[2].ret # None
    /\ th[1].ret.ok /\ th[2].ret.ok
    /\ th[1].ret.val # th[2].ret.val
    /\ Constructions(th[1].f) = 2
    /\ Len(WrittenTo(th[1].f)) = 2
    /\ facs[th[1].f].instance = WrittenTo(th[1].f)[2][2]

\* C20 (as claimed): once the register calls of the threads have returned, and
\* they registered distinct classes, each of these classes has the factory
\* its call created at its leaf path.
C20_NoRegistrationLost ==
    ( /\ \A t \in Threads : th[t].pc = "idle"
      /\ Cardinality({r[1] : r \in hist.registered}) = Cardinality(hist.registered) )
    => \A r \in hist.registered : FactoryAt(maps, Root("A"), r[1]) = FacRef(r[2])

\* What a facade's registry holds: its root map with every nested map and
\* every group list replaced by its contents.
RECURSIVE View(_, _, _)
View(mp, ls, m) ==
    [i \in 1..Len(mp[m]) |->
       LET v == mp[m][i][2]
       IN <<mp[m][i][1],
            IF v.t = "map" THEN [t |-> "map", items |-> View(mp, ls, v.m)]
            ELSE IF v.t = "listref" THEN [t |-> "list", items |-> ls[v.l]]
            ELSE v>>]

\* C21 (as claimed): A.update(B) leaves what B's registry holds, group lists
\* included, as it was and leaves every factory that resolved against B's
\* registry resolving against it; and a register call on one facade leaves
\* what the other facade's registry holds as it was (before any merge the two
\* registries share nothing, so this speaks of registrations after a merge).
C21_UpdateLeavesBIndependent ==
    [][ /\ (last'.op = "update" /\ last'.c = "A") =>
             /\ View(maps', lists', Root("B")) = View(maps, lists, Root("B"))
             /\ \A f \in 1..Len(facs) :
                  facs[f].containers = Root("B") => facs'[f].containers = Root("B")
        /\ last'.op = "register" =>
             \A c \in Facades \ {last'.c} :
               View(maps', lists', Root(c)) = View(maps, lists, Root(c)) ]_vars

\* The factories a facade holds in its group lists, in its alias index and as
\* its designated config.
GroupedFactories(c) ==
    LET group == maps[KwGet(maps[Root(c)], "_group").m]
    IN UNION { { lists[group[i][2].l][j] : j \in 1..Len(lists[group[i][2].l]) } :
               i \in { k \in 1..Len(group) : group[k][2].t = "listref" } }

AliasedFactories(c) ==
    LET alias == maps[KwGet(maps[Root(c)], "_alias").m]
    IN { alias[i][2].f : i \in { k \in 1..Len(alias) : alias[k][2].t = "factory" } }

ConfigFactories(c) ==
    LET config == KwGet(maps[Root(c)], "_config")
    IN IF config.t = "factory" THEN {config.f} ELSE {}

\* C22 (as claimed): in every state each factory a facade holds in a group
\* list, in its alias index or as its designated config is the factory at the
\* leaf path of its class in that facade, and no group list holds two
\* factories of one class.
C22_IndexedFactoriesAreLeaves ==
    \A c \in Facades :
      /\ \A f \in GroupedFactories(c) \cup AliasedFactories(c) \cup ConfigFactories(c) :
           FactoryAt(maps, Root(c), facs[f].class_object.c) = FacRef(f)
      /\ \A l \in 1..Len(lists) : \A i, j \in 1..Len(lists[l]) :
           i # j => facs[lists[l][i]].class_object # facs[lists[l][j]].class_object

====
